---- MODULE Spec2Model ----
(***************************************************************************)
(* KToolBox, ktoolbox/action/utils.py and ktoolbox/configuration.py:       *)
(* the indices differ (filter_posts_by_indices), the time window filter    *)
(* (filter_posts_by_time), the path namer (generate_post_path_name) and    *)
(* the canonical hasher (json_hash).                                       *)
(*                                                                         *)
(* Each component has its own specification over the shared variables;     *)
(* the variables of the other components stay at their idle values.        *)
(***************************************************************************)
EXTENDS Integers, Sequences, FiniteSets, TLC

VARIABLES
    \* ---- indices differ ----
    heap,       \* address -> contents of a `posts` dict (id -> Post)
    live,       \* the allocated addresses
    indices,    \* the caller's CreatorIndices: address of its `posts` dict
    updated,    \* the CreatorIndices returned by the last call (0: none pending)
    posts,      \* argument `posts` of the last call
    changed,    \* first component returned by the last call
    before,     \* contents of the caller's index when the last call started
    chained,    \* the caller's index is the `updated` of the call on `posts`
    rerun,      \* the last call took the `updated` of a call on the same posts
    \* ---- time window filter ----
    tposts, tstart, tend,   \* arguments of filter_posts_by_time
    tpos,       \* position of the underlying filter iterator in post_list
    yielded,    \* the posts the generator has yielded so far
    tstatus,    \* "suspended" | "exhausted" | "TypeError"
    \* ---- path namer ----
    job,        \* config.job: attribute name -> value
    npost,      \* argument of the last generate_post_path_name call (<<>>: none)
    nresult,    \* its outcome
    \* ---- canonical hasher ----
    obj,        \* the value trees the caller holds (mutable objects)
    orig,       \* structurally equal fresh copies of the trees as first built
    res         \* per tree, the json_hash calls made on it: <<[mode, out]>>

differVars == <<heap, live, indices, updated, posts, changed, before, chained, rerun>>
timeVars   == <<tposts, tstart, tend, tpos, yielded, tstatus>>
namerVars  == <<job, npost, nresult>>
hashVars   == <<obj, orig, res>>
vars == <<differVars, timeVars, namerVars, hashVars>>

\* ------------------------------------------------------------------ bounds
MaxTime  == 2      \* timestamps are 1..MaxTime
MaxPosts == 2      \* longest post list

\* Optional[T]: None is <<>>, a present value t is <<t>>.
None == <<>>
Some(t) == <<t>>
Times == 1..MaxTime
OptTimes == {None} \cup {Some(t) : t \in Times}

\* Sequences over S of length at most n.
SeqsUpTo(S, n) == UNION {[1..k -> S] : k \in 0..n}

\* ========================================================================
\* Indices differ
\* ========================================================================
Ids == {"p1", "p2"}
Addr == {1, 2}

\* Post as the differ reads it: the id and the (present) edited timestamp.
DPost == [id : Ids, edited : Times]

EmptyDict == [x \in {} |-> 0]

\* CreatorIndices.posts: every key equals its record's id.
IndexDicts ==
    UNION {{d \in [S -> DPost] : \A k \in S : d[k].id = k} : S \in SUBSET Ids}

\* d[k] = v
DictSet(d, k, v) == [x \in DOMAIN d \cup {k} |-> IF x = k THEN v ELSE d[x]]

\* The lambda of the filter: line 87.
Retain_ge(x, idx) == x.id \notin DOMAIN idx \/ x.edited >= idx[x.id].edited
Retain_lt(x, idx) == x.id \notin DOMAIN idx \/ x.edited < idx[x.id].edited
Retain(x, idx) == x.id \notin DOMAIN idx \/ x.edited > idx[x.id].edited

\* list(filter(lambda, posts)): lines 85-89.
RECURSIVE NewList(_, _)
NewList(ps, idx) ==
    IF ps = <<>> THEN <<>>
    ELSE (IF Retain(Head(ps), idx) THEN <<Head(ps)>> ELSE <<>>)
         \o NewList(Tail(ps), idx)

\* for post in new_list: new_indices.posts[post.id] = post: lines 91-92.
RECURSIVE WriteAll_noOverwrite(_, _)
WriteAll_noOverwrite(d, list) ==
    IF list = <<>> THEN d
    ELSE IF Head(list).id \in DOMAIN d THEN WriteAll_noOverwrite(d, Tail(list))
    ELSE WriteAll_noOverwrite(DictSet(d, Head(list).id, Head(list)), Tail(list))
RECURSIVE WriteAll(_, _)
WriteAll(d, list) ==
    IF list = <<>> THEN d
    ELSE WriteAll(DictSet(d, Head(list).id, Head(list)), Tail(list))

Alloc(lv) == CHOOSE a \in Addr \ lv : \A b \in Addr \ lv : a <= b

\* indices.model_copy(deep=True): a new object holding a copy of the dict.
ModelCopy_shallow(h, lv, ref) == [heap |-> h, live |-> lv, ref |-> ref]
ModelCopy(h, lv, ref) ==
    LET a == Alloc(lv)
    IN  [heap |-> [h EXCEPT ![a] = h[ref]], live |-> lv \cup {a}, ref |-> a]

\* filter_posts_by_indices(ps, ind) on heap h.
FilterPostsByIndices(ps, h, lv, ind) ==
    LET new_list == NewList(ps, h[ind])
        cp == ModelCopy(h, lv, ind)
    IN  [changed |-> new_list,
         updated |-> cp.ref,
         heap |-> [cp.heap EXCEPT ![cp.ref] = WriteAll(cp.heap[cp.ref], new_list)],
         live |-> cp.live]

TimeIdle ==
    /\ tposts = <<>> /\ tstart = None /\ tend = None
    /\ tpos = 0 /\ yielded = <<>> /\ tstatus = "idle"
NamerIdle == job = EmptyDict /\ npost = <<>> /\ nresult = <<>>
HashIdle == obj = <<>> /\ orig = <<>> /\ res = <<>>
DifferIdle ==
    /\ heap = [a \in Addr |-> EmptyDict] /\ live = {} /\ indices = 0
    /\ updated = 0 /\ posts = <<>> /\ changed = <<>> /\ before = EmptyDict
    /\ chained = FALSE /\ rerun = FALSE

InitDiffer ==
    /\ \E d \in IndexDicts : heap = [a \in Addr |-> IF a = 1 THEN d ELSE EmptyDict]
    /\ live = {1}
    /\ indices = 1
    /\ updated = 0
    /\ posts = <<>> /\ changed = <<>> /\ before = EmptyDict
    /\ chained = FALSE /\ rerun = FALSE
    /\ TimeIdle /\ NamerIdle /\ HashIdle

\* The caller runs filter_posts_by_indices(ps, indices).
Diff(ps) ==
    /\ updated = 0
    /\ LET r == FilterPostsByIndices(ps, heap, live, indices)
       IN  /\ heap' = r.heap
           /\ live' = r.live
           /\ updated' = r.updated
           /\ changed' = r.changed
    /\ posts' = ps
    /\ before' = heap[indices]
    /\ rerun' = (chained /\ ps = posts)
    /\ chained' = FALSE
    /\ UNCHANGED indices
    /\ UNCHANGED <<timeVars, namerVars, hashVars>>

\* The caller persists `updated` and is done with the call's results: the next
\* call takes `updated` as its indices.
Persist ==
    /\ updated # 0
    /\ indices' = updated
    /\ updated' = 0
    /\ live' = {updated}
    /\ heap' = [a \in Addr |-> IF a = updated THEN heap[a] ELSE EmptyDict]
    /\ chained' = TRUE
    /\ changed' = <<>> /\ before' = EmptyDict /\ rerun' = FALSE
    /\ UNCHANGED posts
    /\ UNCHANGED <<timeVars, namerVars, hashVars>>

\* The caller drops `updated` (a download failed): the index stays as loaded.
Discard ==
    /\ updated # 0
    /\ updated' = 0
    /\ live' = {indices}
    /\ heap' = [a \in Addr |-> IF a = indices THEN heap[a] ELSE EmptyDict]
    /\ posts' = <<>> /\ changed' = <<>> /\ before' = EmptyDict
    /\ chained' = FALSE /\ rerun' = FALSE
    /\ UNCHANGED indices
    /\ UNCHANGED <<timeVars, namerVars, hashVars>>

NextDiffer ==
    \/ \E ps \in SeqsUpTo(DPost, MaxPosts) : Diff(ps)
    \/ Persist
    \/ Discard

SpecDiffer == InitDiffer /\ [][NextDiffer]_vars

\* ========================================================================
\* Time window filter
\* ========================================================================
\* Post as the time filter reads it: published is Optional[datetime].
TPost == [id : Ids, published : OptTimes]

\* Truth value of an Optional[datetime]: None is falsy, a datetime is truthy.
Truthy(x) == x # None

\* a < b and a > b on Optional[datetime]: comparing None with a datetime
\* raises TypeError.
PyLt(a, b) ==
    IF a = None \/ b = None THEN "TypeError"
    ELSE IF a[1] < b[1] THEN "True" ELSE "False"
PyGt(a, b) ==
    IF a = None \/ b = None THEN "TypeError"
    ELSE IF a[1] > b[1] THEN "True" ELSE "False"

\* _match_post_time: "True" | "False" | "TypeError".
MatchPostTime(post, start_time, end_time) ==
    LET c1 == IF Truthy(start_time) THEN PyLt(post.published, start_time)
              ELSE "False"
        c2 == IF Truthy(end_time) THEN PyGt(post.published, end_time)
              ELSE "False"
    IN  IF c1 = "TypeError" THEN "TypeError"
        ELSE IF c1 = "True" THEN "False"
        ELSE IF c2 = "TypeError" THEN "TypeError"
        ELSE IF c2 = "True" THEN "False"
        ELSE "True"

\* One next() of the filter object from position i: the lambda is applied to
\* the posts in turn until one matches, the list ends, or the lambda raises.
RECURSIVE FilterNext(_, _, _, _)
FilterNext(ps, i, start_time, end_time) ==
    IF i >= Len(ps) THEN [pos |-> i, out |-> "StopIteration"]
    ELSE LET m == MatchPostTime(ps[i + 1], start_time, end_time)
         IN  IF m = "TypeError" THEN [pos |-> i + 1, out |-> "TypeError"]
             ELSE IF m = "True" THEN [pos |-> i + 1, out |-> "yield"]
             ELSE FilterNext(ps, i + 1, start_time, end_time)

\* filter_posts_by_time(post_list, start_time, end_time) has been called: the
\* generator exists and has not run yet.
InitTime ==
    /\ tposts \in SeqsUpTo(TPost, MaxPosts)
    /\ tstart \in OptTimes
    /\ tend \in OptTimes
    /\ tpos = 0
    /\ yielded = <<>>
    /\ tstatus = "suspended"
    /\ DifferIdle /\ NamerIdle /\ HashIdle

\* The consumer asks the generator for its next post (yield from post_filter).
GenNext ==
    /\ tstatus = "suspended"
    /\ LET r == FilterNext(tposts, tpos, tstart, tend)
       IN  /\ tpos' = r.pos
           /\ yielded' = IF r.out = "yield" THEN Append(yielded, tposts[r.pos])
                         ELSE yielded
           /\ tstatus' = CASE r.out = "yield" -> "suspended"
                           [] r.out = "StopIteration" -> "exhausted"
                           [] OTHER -> "TypeError"
    /\ UNCHANGED <<tposts, tstart, tend>>
    /\ UNCHANGED <<differVars, namerVars, hashVars>>

NextTime == GenNext

SpecTime == InitTime /\ [][NextTime]_vars

\* ========================================================================
\* Path namer
\* ========================================================================
\* A str is the sequence of its characters; an id is one opaque character.
Titles == {<<>>, <<"t">>, <<"a", "/", "b">>}
NPost ==
    [id : {<<id>> : id \in Ids}, user : {<<"u">>}, service : {<<"s">>},
     title : Titles, added : OptTimes, published : OptTimes, edited : OptTimes]

\* config.job: the fields JobConfiguration declares, with their values.
JobConfigurations ==
    {[count |-> 10, post_id_as_name |-> b,
      post_structure |-> "PostStructureConfiguration"] : b \in BOOLEAN}

\* o.name on a pydantic model: a field that is not declared raises AttributeError.
GetAttr(o, name) ==
    IF name \in DOMAIN o THEN [ok |-> TRUE, val |-> o[name]]
    ELSE [ok |-> FALSE, val |-> "AttributeError"]

Return(v) == [kind |-> "return", val |-> v]
Raise(e) == [kind |-> "raise", val |-> <<e>>]

\* t.strftime("%Y-%m-%d") if t else ""
DateStr(t) == IF Truthy(t) THEN <<"date-" \o ToString(t[1])>> ELSE <<>>

Placeholders == {"{id}", "{user}", "{service}", "{title}", "{added}",
                 "{published}", "{edited}"}
IsPlaceholder(c) == c \in Placeholders \cup {"{other}"}

\* str.format with the seven keyword arguments: [ok, val]; a placeholder that
\* is none of the seven is a KeyError.
RECURSIVE Format(_, _)
Format(tpl, post) ==
    IF tpl = <<>> THEN [ok |-> TRUE, val |-> <<>>]
    ELSE LET c == Head(tpl)
             rest == Format(Tail(tpl), post)
             sub == CASE c = "{id}" -> post.id
                      [] c = "{user}" -> post.user
                      [] c = "{service}" -> post.service
                      [] c = "{title}" -> post.title
                      [] c = "{added}" -> DateStr(post.added)
                      [] c = "{published}" -> DateStr(post.published)
                      [] c = "{edited}" -> DateStr(post.edited)
                      [] OTHER -> <<c>>
         IN  IF IsPlaceholder(c) /\ c \notin Placeholders
             THEN [ok |-> FALSE, val |-> <<>>]
             ELSE IF ~rest.ok THEN rest
             ELSE [ok |-> TRUE, val |-> sub \o rest.val]

\* sanitize_filename: the characters a file name may not hold are dropped.
IllegalChars == {"/", "\\", ":", "*", "?", "<", ">", "|"}
IsLegal(c) == c \notin IllegalChars
SanitizeFilename(str) == SelectSeq(str, IsLegal)

\* generate_post_path_name(post) under config.job = cfg.
GeneratePostPathName(post, cfg) ==
    LET as_path == GetAttr(cfg, "post_id_as_path")
        fmt == GetAttr(cfg, "post_dirname_format")
    IN  IF ~as_path.ok THEN Raise("AttributeError")
        ELSE IF as_path.val \/ post.title = <<>> THEN Return(post.id)
        ELSE IF ~fmt.ok THEN Raise("AttributeError")
        ELSE LET f == Format(fmt.val, post)
             IN  IF ~f.ok THEN Raise("SystemExit")
                 ELSE Return(SanitizeFilename(f.val))

\* The configuration has been loaded; no name has been generated yet.
InitNamer ==
    /\ job \in JobConfigurations
    /\ npost = <<>>
    /\ nresult = <<>>
    /\ DifferIdle /\ TimeIdle /\ HashIdle

GenerateName(post) ==
    /\ npost' = <<post>>
    /\ nresult' = <<GeneratePostPathName(post, job)>>
    /\ UNCHANGED job
    /\ UNCHANGED <<differVars, timeVars, hashVars>>

NextNamer == \E post \in NPost : GenerateName(post)

SpecNamer == InitNamer /\ [][NextNamer]_vars

\* ========================================================================
\* Canonical hasher
\* ========================================================================
\* A JSON value is <<tag, payload>>:
\*   <<"int", n>>, <<"float", n>> (the float n.0), <<"str", characters>>,
\*   <<"list", sequence of values>>, <<"dict", key -> value>>.
\* A str is the sequence of its characters; text produced by json.dumps, str()
\* and hexdigest() is a sequence of characters too.
MaxLen == 2          \* longest list of a value tree
MaxHashCalls == 2    \* json_hash calls on one tree

Tag(v) == v[1]
Val(v) == v[2]
PyInt(n) == <<"int", n>>
PyFloat(n) == <<"float", n>>
Str(cs) == <<"str", cs>>
List(seq) == <<"list", seq>>
Dict(f) == <<"dict", f>>
IsNumber(v) == Tag(v) \in {"int", "float"}

\* Dict keys, in the order the dicts of the model were filled, which is also
\* their sorted order.
KeyOrder == <<"x", "y">>

\* Characters in increasing order; the characters a digest is written with
\* are placed after the letters the model's own strings use.
CharOrder ==
    <<"\"", ", ", "1", "1.0", "2", "2.0", ": ", "[", "]", "a",
      "dict-", "sha256(", ")", "x", "y", "{", "}">>
CharRank(c) == CHOOSE i \in 1..Len(CharOrder) : CharOrder[i] = c

\* str(type(x)), by its rank in string order: "<class 'float'>" <
\* "<class 'int'>" < "<class 'list'>" < "<class 'str'>".
TypeOrder == <<"dict", "float", "int", "list", "str">>
TypeRank(v) == CHOOSE i \in 1..Len(TypeOrder) : TypeOrder[i] = Tag(v)

\* hashlib.sha256(text.encode()).hexdigest(): the digest names its text (no
\* two texts of the model share a digest).
Sha256(text) == <<"sha256(">> \o text \o <<")">>

NumText(v) ==
    IF Tag(v) = "int" THEN <<ToString(Val(v))>> ELSE <<ToString(Val(v)) \o ".0">>

\* str(v) of a scalar: a str is its own text, without quotes.
PyStr(v) == IF Tag(v) = "str" THEN Val(v) ELSE NumText(v)

\* json.dumps(v, sort_keys=True); a list holds no dict when it is dumped, so
\* sort_keys matters for the dumped dict only.
RECURSIVE Dumps(_), DumpsItems(_, _), DumpsFields(_, _, _)
Dumps(v) ==
    CASE IsNumber(v) -> NumText(v)
      [] Tag(v) = "str" -> <<"\"">> \o Val(v) \o <<"\"">>
      [] Tag(v) = "list" -> <<"[">> \o DumpsItems(Val(v), 1) \o <<"]">>
      [] Tag(v) = "dict" -> <<"{">> \o DumpsFields(Val(v), 1, TRUE) \o <<"}">>
DumpsItems(seq, i) ==
    IF i > Len(seq) THEN <<>>
    ELSE (IF i > 1 THEN <<", ">> ELSE <<>>) \o Dumps(seq[i])
         \o DumpsItems(seq, i + 1)
DumpsFields(f, i, first) ==
    IF i > Len(KeyOrder) THEN <<>>
    ELSE IF KeyOrder[i] \notin DOMAIN f THEN DumpsFields(f, i + 1, first)
    ELSE (IF first THEN <<>> ELSE <<", ">>)
         \o <<"\"", KeyOrder[i], "\"", ": ">> \o Dumps(f[KeyOrder[i]])
         \o DumpsFields(f, i + 1, FALSE)

\* a < b on two strs: by the first character that differs, a proper prefix first.
RECURSIVE CharsLess(_, _)
CharsLess(a, b) ==
    IF b = <<>> THEN FALSE
    ELSE IF a = <<>> THEN TRUE
    ELSE IF Head(a) = Head(b) THEN CharsLess(Tail(a), Tail(b))
    ELSE CharRank(Head(a)) < CharRank(Head(b))

\* a == b: numbers by value whatever their type (1 == 1.0), lists item by item.
RECURSIVE PyEq(_, _)
PyEq(a, b) ==
    IF IsNumber(a) /\ IsNumber(b) THEN Val(a) = Val(b)
    ELSE IF Tag(a) # Tag(b) THEN FALSE
    ELSE IF Tag(a) = "list"
    THEN /\ Len(Val(a)) = Len(Val(b))
         /\ \A i \in 1..Len(Val(a)) : PyEq(Val(a)[i], Val(b)[i])
    ELSE a = b

\* a < b: "True" | "False" | "TypeError". Lists compare by their first items
\* that are not ==; a number against a str or a list is a TypeError.
RECURSIVE PyLess(_, _), SeqLess(_, _)
PyLess(a, b) ==
    IF IsNumber(a) /\ IsNumber(b)
    THEN (IF Val(a) < Val(b) THEN "True" ELSE "False")
    ELSE IF Tag(a) # Tag(b) \/ Tag(a) = "dict" THEN "TypeError"
    ELSE IF Tag(a) = "str"
    THEN (IF CharsLess(Val(a), Val(b)) THEN "True" ELSE "False")
    ELSE SeqLess(Val(a), Val(b))
SeqLess(a, b) ==
    IF b = <<>> THEN "False"
    ELSE IF a = <<>> THEN "True"
    ELSE IF PyEq(Head(a), Head(b)) THEN SeqLess(Tail(a), Tail(b))
    ELSE PyLess(Head(a), Head(b))

\* (str(type(a)), a) < (str(type(b)), b): the tuples compare by their first
\* components that are not ==.
KeyLess(a, b) ==
    IF TypeRank(a) # TypeRank(b)
    THEN (IF TypeRank(a) < TypeRank(b) THEN "True" ELSE "False")
    ELSE IF PyEq(a, b) THEN "False"
    ELSE PyLess(a, b)

\* Stable insertion of x into the sorted s: after every item that is not
\* greater than x.
RECURSIVE Insert(_, _)
Insert(s, x) ==
    IF s = <<>> THEN <<x>>
    ELSE IF KeyLess(x, s[Len(s)]) = "True"
    THEN Append(Insert(SubSeq(s, 1, Len(s) - 1), x), s[Len(s)])
    ELSE Append(s, x)
RECURSIVE InsertAll(_, _)
InsertAll(s, rest) ==
    IF rest = <<>> THEN s ELSE InsertAll(Insert(s, Head(rest)), Tail(rest))

\* sorted(l, key=lambda x: (str(type(x)), x)): [err, val]. The sort is stable.
\* Two items whose keys do not compare are, whatever the order of the list,
\* compared with each other by the sort (no third key lies between them), so
\* the sort raises exactly when the list holds such a pair.
Sorted(seq) ==
    IF \E i, j \in 1..Len(seq) : i # j /\ KeyLess(seq[i], seq[j]) = "TypeError"
    THEN [err |-> TRUE, val |-> <<>>]
    ELSE [err |-> FALSE, val |-> InsertAll(<<>>, seq)]

Replace(seq, i, v) == [seq EXCEPT ![i] = v]

\* sort_list(l) and hash_dict(d), lines 107-126. A list or dict object is
\* changed in place by the call; a call that raises leaves the replacements
\* made so far in place.
\*   ProcessItem: [err, mut, val]: what the loop body does with one item v:
\*     whether it raised, the object v as the nested call left it, and the
\*     value stored in place of v.
\*   SortLoop, DictLoop: [err, mut]: the for loop from index i on; mut is the
\*     list (dict) object as the loop left it.
\*   SortList: [err, mut, ret]: ret is the list returned.
\*   HashDict: [err, mut, digest].
RECURSIVE ProcessItem(_, _), SortList(_, _), SortLoop(_, _, _),
          HashDict(_, _), DictLoop(_, _, _)

DictItem(r) ==
    [err |-> r.err, mut |-> Dict(r.mut), val |-> Str(<<"dict-">> \o r.digest)]
ListItem(r) ==
    [err |-> r.err, mut |-> List(r.mut), val |-> List(r.ret)]
ProcessItem(v, sorted_list) ==
    CASE Tag(v) = "dict" -> DictItem(HashDict(Val(v), sorted_list))
      [] Tag(v) = "list" -> ListItem(SortList(Val(v), sorted_list))
      [] OTHER -> [err |-> FALSE, mut |-> v, val |-> v]

SortStep(seq, i, sorted_list, r) ==
    IF r.err THEN [err |-> TRUE, mut |-> Replace(seq, i, r.mut)]
    ELSE SortLoop(Replace(seq, i, r.val), i + 1, sorted_list)
SortLoop(seq, i, sorted_list) ==
    IF i > Len(seq) THEN [err |-> FALSE, mut |-> seq]
    ELSE SortStep(seq, i, sorted_list, ProcessItem(seq[i], sorted_list))

SortReturn(l, s) == [err |-> s.err, mut |-> l, ret |-> s.val]
SortFinish(lp, sorted_list) ==
    IF lp.err THEN [err |-> TRUE, mut |-> lp.mut, ret |-> <<>>]
    ELSE IF sorted_list THEN SortReturn(lp.mut, Sorted(lp.mut))
    ELSE [err |-> FALSE, mut |-> lp.mut, ret |-> lp.mut]
SortList(seq, sorted_list) == SortFinish(SortLoop(seq, 1, sorted_list), sorted_list)

DictStep(f, i, sorted_list, r) ==
    IF r.err THEN [err |-> TRUE, mut |-> [f EXCEPT ![KeyOrder[i]] = r.mut]]
    ELSE DictLoop([f EXCEPT ![KeyOrder[i]] = r.val], i + 1, sorted_list)
DictLoop(f, i, sorted_list) ==
    IF i > Len(KeyOrder) THEN [err |-> FALSE, mut |-> f]
    ELSE IF KeyOrder[i] \notin DOMAIN f THEN DictLoop(f, i + 1, sorted_list)
    ELSE DictStep(f, i, sorted_list, ProcessItem(f[KeyOrder[i]], sorted_list))

DictFinish(lp) ==
    IF lp.err THEN [err |-> TRUE, mut |-> lp.mut, digest |-> <<>>]
    ELSE [err |-> FALSE, mut |-> lp.mut, digest |-> Sha256(Dumps(Dict(lp.mut)))]
HashDict(f, sorted_list) == DictFinish(DictLoop(f, 1, sorted_list))

\* hash_list(l), lines 117-118.
ListFinish(r) ==
    IF r.err THEN [err |-> TRUE, mut |-> r.mut, digest |-> <<>>]
    ELSE [err |-> FALSE, mut |-> r.mut, digest |-> Sha256(Dumps(List(r.ret)))]
HashList(seq, sorted_list) == ListFinish(SortList(seq, sorted_list))

\* hash_value(v), lines 128-129.
HashValue(v) == Sha256(PyStr(v))

\* json_hash(d, sorted_list): [err, mut, digest], mut being the object d as the
\* call left it (hash_json, lines 131-139).
OfDict(r) == [err |-> r.err, mut |-> Dict(r.mut), digest |-> r.digest]
OfList(r) == [err |-> r.err, mut |-> List(r.mut), digest |-> r.digest]
JsonHash(d, sorted_list) ==
    CASE Tag(d) = "dict" -> OfDict(HashDict(Val(d), sorted_list))
      [] Tag(d) = "list" -> OfList(HashList(Val(d), sorted_list))
      [] OTHER -> [err |-> FALSE, mut |-> d, digest |-> HashValue(d)]

\* ---- the value trees of the model ----
Scalars == {PyInt(1), PyInt(2), PyFloat(1), Str(<<"a">>)}
ListsOf(S) == {List(seq) : seq \in SeqsUpTo(S, MaxLen)}
DictsOf(S) == {Dict(EmptyDict)} \cup {Dict([k \in {"x"} |-> v]) : v \in S}
\* Scalars, and the lists and dicts whose items are in S.
TreesOver(S) == Scalars \cup ListsOf(S) \cup DictsOf(S)

\* The trees that are v with the items of its lists, at any depth, permuted.
RECURSIVE Permuted(_)
Permuted(v) ==
    IF Tag(v) = "list"
    THEN LET n == Len(Val(v))
             items == UNION {Permuted(Val(v)[i]) : i \in 1..n}
         IN  {List(q) : q \in
                {q \in [1..n -> items] :
                    \E pi \in [1..n -> 1..n] :
                        /\ \A i, j \in 1..n : pi[i] = pi[j] => i = j
                        /\ \A i \in 1..n : q[i] \in Permuted(Val(v)[pi[i]])}}
    ELSE IF Tag(v) = "dict"
    THEN {Dict(g) : g \in
            {g \in [DOMAIN Val(v) -> UNION {Permuted(Val(v)[k]) : k \in DOMAIN Val(v)}] :
                \A k \in DOMAIN Val(v) : g[k] \in Permuted(Val(v)[k])}}
    ELSE {v}

\* The caller holds two fresh trees, the second a permutation of the first.
InitHash ==
    /\ \E v \in TreesOver(TreesOver(Scalars)) : \E w \in Permuted(v) :
          /\ obj = <<v, w>>
          /\ orig = <<v, w>>
    /\ res = <<<<>>, <<>>>>
    /\ DifferIdle /\ TimeIdle /\ NamerIdle

\* The caller runs json_hash(obj[i], sorted_list), with outcome r.
Called(i, sorted_list, r) ==
    /\ obj' = [obj EXCEPT ![i] = r.mut]
    /\ res' = [res EXCEPT ![i] =
                 Append(@, [mode |-> sorted_list, err |-> r.err,
                            digest |-> r.digest])]
JsonHashCall(i, sorted_list) ==
    /\ Len(res[i]) < MaxHashCalls
    /\ Called(i, sorted_list, JsonHash(obj[i], sorted_list))
    /\ UNCHANGED orig
    /\ UNCHANGED <<differVars, timeVars, namerVars>>

NextHash == \E i \in {1, 2} : \E sorted_list \in BOOLEAN : JsonHashCall(i, sorted_list)

SpecHash == InitHash /\ [][NextHash]_vars

\* ------------------------------------------------------------------------
\* Claims on the indices differ
\* ------------------------------------------------------------------------
Returned == updated # 0

\* Positions of `posts` whose post is new to, or edited after, the index the
\* call was given.
RetainedAt ==
    {i \in 1..Len(posts) :
        \/ posts[i].id \notin DOMAIN before
        \/ posts[i].edited > before[posts[i].id].edited}
RetainedIds == {posts[i].id : i \in RetainedAt}
KthOf(R, k) == CHOOSE i \in R : Cardinality({j \in R : j <= i}) = k
LastAt(id) ==
    CHOOSE i \in RetainedAt :
        /\ posts[i].id = id
        /\ \A j \in RetainedAt : posts[j].id = id => j <= i

ChangedIsRetainedSubsequence ==
    /\ Len(changed) = Cardinality(RetainedAt)
    /\ \A k \in 1..Len(changed) : changed[k] = posts[KthOf(RetainedAt, k)]
OtherEntriesKept ==
    /\ DOMAIN heap[updated] = DOMAIN before \cup RetainedIds
    /\ \A id \in DOMAIN heap[updated] \ RetainedIds : heap[updated][id] = before[id]
DistinctIds(ps) ==
    \A i, j \in 1..Len(ps) : ps[i].id = ps[j].id => i = j
SameIdSameEdited(ps) ==
    \A i, j \in 1..Len(ps) : ps[i].id = ps[j].id => ps[i].edited = ps[j].edited

\* C1 as stated: changed is the subsequence of posts, in input order, that are
\* absent from the index or strictly newer than the stored record; updated holds
\* EACH retained post under its id, and every other entry is the one of indices.
C1_AsStated ==
    Returned =>
        /\ ChangedIsRetainedSubsequence
        /\ \A i \in RetainedAt : heap[updated][posts[i].id] = posts[i]
        /\ OtherEntriesKept

\* C1 amended: as C1, but under the id of a retained post updated holds the LAST
\* retained post of the list with that id (the writes happen in list order, so
\* of two retained posts sharing an id only the later one is held).
C1_ChangedAndUpdated ==
    Returned =>
        /\ ChangedIsRetainedSubsequence
        /\ \A id \in RetainedIds : heap[updated][id] = posts[LastAt(id)]
        /\ OtherEntriesKept

\* C1 witness: a call on a list with two different retained posts sharing an
\* id, given an index that holds an entry under another id.
C1_Witness ==
    /\ Returned
    /\ \E i, j \in RetainedAt : i < j /\ posts[i].id = posts[j].id /\ posts[i] # posts[j]
    /\ DOMAIN before \ RetainedIds # {}

\* C1 second witness state: a call that skipped one post and wrote the other
\* over the entry the index held.
C1_WitnessOverwrite ==
    /\ Returned
    /\ Len(changed) < Len(posts)
    /\ RetainedIds \cap DOMAIN before # {}

\* C2 as stated: a second call with the same posts on the updated index of the
\* first call returns an empty changed list.
C2_AsStated == (Returned /\ rerun) => changed = <<>>

\* C2 amended: differ idempotence for post lists in which posts sharing an id
\* carry the same edited timestamp (so for every list of distinct ids): the
\* second call with the same posts on the updated index of the first returns
\* an empty changed list.
C2_Idempotent == (Returned /\ rerun /\ SameIdSameEdited(posts)) => changed = <<>>

\* C2 witness: a second call on a list of distinct ids, one of whose posts the
\* index holds as written by the first call.
C2_Witness ==
    /\ Returned /\ rerun /\ DistinctIds(posts) /\ Len(posts) >= 2
    /\ \E i \in 1..Len(posts) :
          posts[i].id \in DOMAIN before /\ before[posts[i].id] = posts[i]

\* idx2 holds every id of idx1, with an edited timestamp at least as large.
Forward(idx1, idx2) ==
    \A id \in DOMAIN idx1 :
        id \in DOMAIN idx2 /\ idx2[id].edited >= idx1[id].edited

\* C3: the index only moves forward: the updated index a call returns holds
\* every id of the index it was given with an edited timestamp that is not
\* smaller, and so does the caller's index over every step of a chain of calls.
C3_IndexMovesForward ==
    [][/\ Forward(heap[indices], heap'[indices'])
       /\ updated' # 0 => Forward(heap[indices], heap'[updated'])]_vars

\* C3 witness: a call that raised the timestamp of one stored id and added
\* another id.
C3_Witness ==
    /\ Returned
    /\ \E id \in DOMAIN before : heap[updated][id].edited > before[id].edited
    /\ DOMAIN heap[updated] # DOMAIN before

\* C4: filter_posts_by_indices never mutates the index it is given: after a
\* call the caller's index is what it was before the call, and the returned
\* updated index is another object.
C4_IndicesNotMutated ==
    Returned => (heap[indices] = before /\ updated # indices)

\* C4 witness: a call that wrote over an entry the given index holds.
C4_Witness ==
    /\ Returned
    /\ \E id \in DOMAIN before : heap[updated][id] # before[id]
    /\ heap[indices] = before

\* ------------------------------------------------------------------------
\* Claims on the time window filter
\* ------------------------------------------------------------------------
Finished == tstatus \in {"exhausted", "TypeError"}
BoundActive == tstart # None \/ tend # None

\* published >= start when start is present and published <= end when end is
\* present; an absent published satisfies no bound.
InWindow(p) ==
    /\ tstart # None => (p.published # None /\ p.published[1] >= tstart[1])
    /\ tend # None => (p.published # None /\ p.published[1] <= tend[1])

\* C5 as stated: once the generator has finished, what it yielded is, in the
\* original order, exactly the posts whose published lies in the window.
C5_AsStated == Finished => yielded = SelectSeq(tposts, InWindow)

\* C6 as stated: with a bound present, a post whose published is absent is a
\* non-match: it is not yielded and examining it raises no error.
C6_AsStated ==
    BoundActive =>
        /\ tstatus # "TypeError"
        /\ \A k \in 1..Len(yielded) : yielded[k].published # None

\* ------------------------------------------------------------------------
\* Claims on the path namer
\* ------------------------------------------------------------------------
SwitchOn == "post_id_as_path" \in DOMAIN job /\ job["post_id_as_path"]

\* C7 as stated: generate_post_path_name returns exactly post.id when the
\* switch post_id_as_path is true or the title is empty.
C7_AsStated ==
    (npost # <<>> /\ (SwitchOn \/ npost[1].title = <<>>))
        => nresult = <<Return(npost[1].id)>>

\* ------------------------------------------------------------------------
\* Claims on the canonical hasher
\* ------------------------------------------------------------------------
\* C8 as stated: every call json_hash(v, m) returns what json_hash returns on
\* a fresh copy of v in mode m, whatever calls were made on v before.
C8_AsStated ==
    \A i \in 1..Len(res) : \A k \in 1..Len(res[i]) :
        LET fresh == JsonHash(orig[i], res[i][k].mode)
        IN  /\ res[i][k].err = fresh.err
            /\ res[i][k].digest = fresh.digest

\* C9 as stated: a tree handed to json_hash is afterwards structurally equal to
\* what it was before the call.
C9_AsStated == \A i \in 1..Len(obj) : obj[i] = orig[i]

\* C10 as stated: in order-insensitive mode a tree and a permutation of it,
\* both fresh, get the same digest.
C10_AsStated ==
    (/\ Len(res) = 2 /\ Len(res[1]) >= 1 /\ Len(res[2]) >= 1
     /\ res[1][1].mode /\ res[2][1].mode
     /\ ~res[1][1].err /\ ~res[2][1].err)
        => res[1][1].digest = res[2][1].digest

====
